---- MODULE Spec2Model ----
(***************************************************************************)
(* rtt-fuzzer: the drive loop of src/rtt-module.js (fuzz, log_crash,       *)
(* deep_compare, object_keypaths) as a state machine.  The rules engine    *)
(* (RULES) and the byte cursor (FuzzedDataProvider of @jazzer.js/core) are *)
(* external; RULES answers from finite menus, the cursor is modelled by    *)
(* what the driver observes of it (bytes consumed from the end of the      *)
(* buffer, one byte per pickValue over 2..256 values, five for the seed).  *)
(***************************************************************************)
EXTENDS Integers, Sequences, FiniteSets, TLC

(***************************************************************************)
(* JavaScript values.  An object is an ordered list of (key, value)        *)
(* entries, in insertion order, as Object.getOwnPropertyNames, for..in and *)
(* JSON.stringify see it.                                                  *)
(***************************************************************************)
Num(n) == [t |-> "number", v |-> n]
Str(s) == [t |-> "string", s |-> s]
Bool(b) == [t |-> "boolean", b |-> b]
Obj(entries) == [t |-> "object", kv |-> entries]
Arr(elements) == [t |-> "array", el |-> elements]
Null == [t |-> "null"]
NaN == [t |-> "NaN"]
Undefined == [t |-> "undefined"]
TypeError == [t |-> "TypeError"]

Entry(key, value) == [k |-> key, val |-> value]

\* typeof value
TypeOf(value) ==
    CASE value.t \in {"object", "array", "null"} -> "object"
      [] value.t \in {"number", "NaN"} -> "number"
      [] OTHER -> value.t

\* 'key in obj' for an own property
HasKey(obj, key) ==
    /\ obj.t = "object"
    /\ \E i \in 1..Len(obj.kv) : obj.kv[i].k = key

\* obj[key]; undefined when the property is absent or obj is a primitive
Get(obj, key) ==
    IF HasKey(obj, key)
    THEN obj.kv[CHOOSE i \in 1..Len(obj.kv) : obj.kv[i].k = key].val
    ELSE Undefined

\* obj[key] = value: an existing property keeps its place, a new one is appended
Put(obj, key, value) ==
    IF HasKey(obj, key)
    THEN Obj([i \in 1..Len(obj.kv) |->
                 IF obj.kv[i].k = key THEN Entry(key, value) ELSE obj.kv[i]])
    ELSE Obj(Append(obj.kv, Entry(key, value)))

\* delete obj[key]
Delete(obj, key) == Obj(SelectSeq(obj.kv, LAMBDA e : e.k # key))

\* Object.keys(obj)
Keys(obj) == [i \in 1..Len(obj.kv) |-> obj.kv[i].k]

\* reading a property of undefined or null throws a TypeError
CanRead(value) == value.t \notin {"undefined", "null"}

\* a === b (NaN is not equal to itself)
StrictEq(a, b) == a = b /\ a.t # "NaN"

(***************************************************************************)
(* JSON.stringify and JSON.parse.  A string is the list of its tokens.     *)
(* stringify drops properties whose value is undefined and writes NaN as   *)
(* null; parse rebuilds the value from the tokens.                         *)
(***************************************************************************)
RECURSIVE JSON_stringify(_)
RECURSIVE stringify_members(_, _)
RECURSIVE stringify_elements(_, _)

stringify_members(kv, i) ==
    IF i > Len(kv) THEN << >>
    ELSE IF kv[i].val.t = "undefined" THEN stringify_members(kv, i + 1)
    ELSE <<[tok |-> "key", s |-> kv[i].k]>> \o JSON_stringify(kv[i].val)
            \o stringify_members(kv, i + 1)

stringify_elements(el, i) ==
    IF i > Len(el) THEN << >>
    ELSE (IF el[i].t = "undefined" THEN <<[tok |-> "null"]>> ELSE JSON_stringify(el[i]))
            \o stringify_elements(el, i + 1)

JSON_stringify(value) ==
    CASE value.t = "object" ->
            <<[tok |-> "{"]>> \o stringify_members(value.kv, 1) \o <<[tok |-> "}"]>>
      [] value.t = "array" ->
            <<[tok |-> "["]>> \o stringify_elements(value.el, 1) \o <<[tok |-> "]"]>>
      [] value.t = "number" -> <<[tok |-> "num", n |-> value.v]>>
      [] value.t = "string" -> <<[tok |-> "str", s |-> value.s]>>
      [] value.t = "boolean" -> <<[tok |-> "bool", b |-> value.b]>>
      [] value.t \in {"null", "NaN"} -> <<[tok |-> "null"]>>
      [] OTHER -> << >>

RECURSIVE parse_value(_, _)
RECURSIVE parse_members(_, _, _)
RECURSIVE parse_elements(_, _, _)

\* each returns [val |-> the value read, next |-> index of the token after it]
parse_members(toks, i, acc) ==
    IF toks[i].tok = "}" THEN [val |-> Obj(acc), next |-> i + 1]
    ELSE LET m == parse_value(toks, i + 1)
         IN parse_members(toks, m.next, Append(acc, Entry(toks[i].s, m.val)))

parse_elements(toks, i, acc) ==
    IF toks[i].tok = "]" THEN [val |-> Arr(acc), next |-> i + 1]
    ELSE LET m == parse_value(toks, i)
         IN parse_elements(toks, m.next, Append(acc, m.val))

parse_value(toks, i) ==
    CASE toks[i].tok = "{" -> parse_members(toks, i + 1, << >>)
      [] toks[i].tok = "[" -> parse_elements(toks, i + 1, << >>)
      [] toks[i].tok = "num" -> [val |-> Num(toks[i].n), next |-> i + 1]
      [] toks[i].tok = "str" -> [val |-> Str(toks[i].s), next |-> i + 1]
      [] toks[i].tok = "bool" -> [val |-> Bool(toks[i].b), next |-> i + 1]
      [] OTHER -> [val |-> Null, next |-> i + 1]

JSON_parse(toks) == parse_value(toks, 1).val

(***************************************************************************)
(* deep_compare(obj1, obj2): the properties of obj2 that differ from obj1. *)
(* It walks the own property names of obj2 only.  The States of this model *)
(* hold no arrays, so a diff object is never an array.  Reading a property *)
(* of an undefined or null obj1, or listing the names of null, throws.    *)
(***************************************************************************)
RECURSIVE deep_compare(_, _)
RECURSIVE deep_compare_forEach(_, _, _, _)

deep_compare_forEach(obj1, obj2, i, diffObj) ==
    IF i > Len(obj2.kv) THEN diffObj
    ELSE LET prop == obj2.kv[i].k
             v2 == obj2.kv[i].val
         IN IF ~CanRead(obj1) THEN TypeError
            ELSE IF TypeOf(v2) = "object"
            THEN LET d == deep_compare(Get(obj1, prop), v2)
                 IN IF d = TypeError THEN TypeError
                    ELSE IF Len(d.kv) = 0
                    THEN deep_compare_forEach(obj1, obj2, i + 1, Delete(diffObj, prop))
                    ELSE deep_compare_forEach(obj1, obj2, i + 1, Put(diffObj, prop, d))
            ELSE IF ~StrictEq(Get(obj1, prop), v2)
            THEN deep_compare_forEach(obj1, obj2, i + 1, Put(diffObj, prop, v2))
            ELSE deep_compare_forEach(obj1, obj2, i + 1, diffObj)

deep_compare(obj1, obj2) ==
    IF ~CanRead(obj2) THEN TypeError
    ELSE IF obj2.t # "object" THEN Obj(<< >>)
    ELSE deep_compare_forEach(obj1, obj2, 1, Obj(<< >>))

(***************************************************************************)
(* object_keypaths(obj, prefix): the key paths of the leaves of obj, in    *)
(* for..in order.  A path "a.b" is the list <<"a", "b">>.                  *)
(***************************************************************************)
RECURSIVE object_keypaths(_, _)
RECURSIVE object_keypaths_for(_, _, _)

object_keypaths_for(obj, prefix, i) ==
    IF i > Len(obj.kv) THEN << >>
    ELSE LET key == obj.kv[i].k
             v == obj.kv[i].val
         IN (IF v.t = "object"
             THEN object_keypaths(v, Append(prefix, key))
             ELSE <<Append(prefix, key)>>)
            \o object_keypaths_for(obj, prefix, i + 1)

object_keypaths(obj, prefix) ==
    IF obj.t = "object" THEN object_keypaths_for(obj, prefix, 1) ELSE << >>

(***************************************************************************)
(* Bounds of the model.                                                    *)
(***************************************************************************)
\* length of the longest input buffer
MaxLen == 23
\* iterations explored per run when no step limit ends it (MAX_STEPS = 0)
StepCap == 2
\* readings of Date.now()
MaxClock == 2
\* invocations of fuzz by the host
MaxRuns == 2

\* data.remainingBytes < 16
MIN_ENTROPY == 16
\* bytes of consumeIntegralInRange(1, 2**35-31)
SEED_BYTES == 5

Min(a, b) == IF a < b THEN a ELSE b
\* the input buffer of n bytes: bytes 0 and 1 in turn, the last two 0
Buffer(n) == [i \in 1..n |-> IF i > n - 2 THEN 0 ELSE i % 2]

(***************************************************************************)
(* FuzzedDataProvider (@jazzer.js/core), as fuzz uses it.  Integers are    *)
(* consumed from the end of the buffer, the byte read first being the most *)
(* significant; a range of one value consumes nothing.                     *)
(***************************************************************************)
RECURSIVE ReadBytes(_, _, _)
\* the number held by the n bytes that end at position rem, read from rem down
ReadBytes(bytes, rem, n) ==
    IF n = 0 THEN 0
    ELSE 256 * ReadBytes(bytes, rem, n - 1) + bytes[rem - n + 1]

\* Math.ceil(Math.log2(range + 1) / 8), for the ranges of pickValue
BytesForRange(range) == IF range < 256 THEN 1 ELSE 2

\* data.consumeIntegralInRange(min, max)
consumeIntegralInRange(bytes, rem, min, max) ==
    IF min = max \/ rem = 0 THEN [value |-> min, remaining |-> rem]
    ELSE LET n == Min(rem, BytesForRange(max - min))
         IN [value |-> min + (ReadBytes(bytes, rem, n) % (max - min + 1)),
             remaining |-> rem - n]

\* data.consumeIntegralInRange(1, 2**35-31): the inputs of the model keep the
\* five bytes below 2^31, where the reduction modulo 2^35-31 changes nothing
consumeSeed(bytes, rem) ==
    LET n == Min(rem, SEED_BYTES)
    IN [value |-> 1 + ReadBytes(bytes, rem, n), remaining |-> rem - n]

\* data.pickValue(array), for a non-empty array
pickValue(bytes, rem, array) ==
    LET c == consumeIntegralInRange(bytes, rem, 0, Len(array) - 1)
    IN [value |-> array[c.value + 1], remaining |-> c.remaining]

(***************************************************************************)
(* The rules module.  RULES is one of:                                     *)
(*   kind "free": any engine; each call is answered from a finite menu,    *)
(*                and a call already answered is answered the same again;  *)
(*   kind "e2e":  a two-role engine whose only action is pass, which flips *)
(*                active and ends the game after N passes; its terminal    *)
(*                marker lives in `state` (as the modules of this fuzzer   *)
(*                keep it) or in `status`.                                 *)
(***************************************************************************)
Other(role) == IF role = "A" THEN "B" ELSE "A"

\* a State of a free engine
MkState(seed, active, status, turn) ==
    Obj(<<Entry("seed", Num(seed)), Entry("active", Str(active)),
          Entry("state", Str(status)), Entry("turn", Num(turn)),
          Entry("vp", Num(0)), Entry("loc", Obj(<<Entry("x", Num(0))>>))>>)

\* a State of the pass engine
MkPassState(termkey, active, status, passes) ==
    Obj(<<Entry("active", Str(active)), Entry(termkey, Str(status)),
          Entry("seed", Num(1)), Entry("passes", Num(passes))>>)

\* what a view call may do to the State it is given
Mutations == {"leaf", "nested", "addkey", "addobj", "addempty", "delkey", "delnested"}

Mutate(state, m) ==
    CASE m = "none" -> state
      [] m = "leaf" -> Put(state, "vp", Num(Get(state, "vp").v + 1))
      [] m = "nested" -> Put(state, "loc", Put(Get(state, "loc"), "x", Num(1)))
      [] m = "addkey" -> Put(state, "tmp", Num(1))
      [] m = "addobj" -> Put(state, "cache", Obj(<<Entry("hit", Num(1))>>))
      [] m = "addempty" -> Put(state, "cache", Obj(<< >>))
      [] m = "delkey" -> Delete(state, "vp")
      [] m = "delnested" -> Put(state, "loc", Delete(Get(state, "loc"), "x"))

PROMPT_OK == Str("Your turn")
PROMPT_UNKNOWN == Str("Unknown state: battle")

MkView(prompt, actions) ==
    Obj((IF prompt = Undefined THEN << >> ELSE <<Entry("prompt", prompt)>>)
        \o (IF actions = Undefined THEN << >> ELSE <<Entry("actions", actions)>>))

A_pass == Obj(<<Entry("pass", Num(1))>>)
A_undo == Obj(<<Entry("undo", Num(1))>>)
A_undo_move == Obj(<<Entry("undo", Num(1)), Entry("move", Arr(<<Num(1), Num(2)>>))>>)
A_empty == Obj(<< >>)
A_disabled == Obj(<<Entry("pass", Bool(FALSE)), Entry("roll", Num(0)),
                    Entry("move", Arr(<< >>))>>)
A_undo_disabled == Obj(<<Entry("undo", Num(1)), Entry("pass", Num(0))>>)
A_nan == Obj(<<Entry("move", Arr(<<Num(1), NaN>>))>>)
A_null == Obj(<<Entry("pass", Null)>>)

Returned(view, m) == [kind |-> "return", view |-> view, mutation |-> m]
Threw == [kind |-> "throw"]

\* a free engine answers from the full menus on the opening turn and from
\* the short ones afterwards; the view of a game that is over may still hold
\* an unknown prompt, no actions or an unusable argument
Opening(state) == Get(state, "turn") = Num(0)

\* answers of RULES.view(state, role) of a free engine
ViewMenu(state) ==
    IF Opening(state)
    THEN {Threw}
         \cup {Returned(MkView(PROMPT_OK, a), "none") :
                 a \in {A_pass, A_undo, A_undo_move, A_empty, A_disabled,
                        A_undo_disabled, A_nan, A_null, Undefined}}
         \cup {Returned(MkView(PROMPT_UNKNOWN, a), "none") : a \in {A_pass, A_empty}}
         \cup {Returned(MkView(Undefined, A_pass), m) : m \in {"none", "leaf"}}
         \cup {Returned(MkView(PROMPT_OK, A_pass), m) : m \in Mutations}
    ELSE IF Get(state, "state") = Str("game_over")
    THEN {Threw, Returned(MkView(PROMPT_OK, A_pass), "none"),
          Returned(MkView(PROMPT_UNKNOWN, Undefined), "none"),
          Returned(MkView(PROMPT_OK, A_empty), "none"),
          Returned(MkView(PROMPT_OK, A_nan), "none"),
          Returned(MkView(PROMPT_OK, A_pass), "leaf")}
    ELSE {Threw, Returned(MkView(PROMPT_OK, A_pass), "none"),
          Returned(MkView(PROMPT_OK, A_undo_disabled), "none"),
          Returned(MkView(PROMPT_OK, A_pass), "leaf")}

NextState(state, seed, active, status) ==
    [kind |-> "return", state |-> MkState(seed, active, status, Get(state, "turn").v + 1)]

\* answers of RULES.action(state, role, action, args) of a free engine
ActionMenu(state, role, act) ==
    LET seed == Get(state, "seed").v
    IN IF ~Opening(state)
       THEN {NextState(state, seed, IF act = "undo" THEN role ELSE Other(role), "playing")}
       ELSE IF act = "undo"
       THEN {Threw, NextState(state, seed + 1, role, "playing"),
             NextState(state, seed + 1, "All", "playing")}
            \cup {NextState(state, seed, a, "playing") : a \in {role, Other(role), "Both", "All"}}
       ELSE {Threw, NextState(state, seed + 1, "All", "playing"),
             NextState(state, seed, Other(role), "game_over")}
            \cup {NextState(state, seed, a, "playing") : a \in {Other(role), "Both"}}

\* answers of RULES.setup(seed, scenario, options) of a free engine
SetupMenu(seed) ==
    {Threw} \cup {[kind |-> "return", state |-> MkState(seed, a, "playing", 0)] :
                    a \in {"A", "Both", "All"}}

\* answers of RULES.assert_state(state)
AssertMenu == {Threw, [kind |-> "return"]}

\* the pass engine
PassSetup(rules) ==
    [kind |-> "return", state |-> MkPassState(rules.termkey, "A", "playing", 0)]

PassView == Returned(MkView(Undefined, Obj(<<Entry("pass", Bool(TRUE))>>)), "none")

PassAction(rules, state) ==
    LET passes == Get(state, "passes").v + 1
    IN [kind |-> "return",
        state |-> MkPassState(rules.termkey, Other(Get(state, "active").s),
                              IF passes >= rules.N THEN "game_over" ELSE "playing",
                              passes)]

\* the VIEW_SCHEMA of the engines that declare one: {required: ["prompt"]}
rules_view_schema_validate(view) == HasKey(view, "prompt")

(***************************************************************************)
(* Helpers of fuzz.                                                        *)
(***************************************************************************)
\* an InsufficientBytes with half the threshold
InsufficientBytes_half(rem) == rem < MIN_ENTROPY \div 2

\* an InsufficientBytes that never finds the input exhausted
InsufficientBytes_none(rem) == FALSE

\* an InsufficientBytes that is off by one
InsufficientBytes_15(rem) == rem < MIN_ENTROPY - 1

\* lines 31 and 60: data.remainingBytes < 16
InsufficientBytes(rem) == rem < MIN_ENTROPY

\* if (value)
Truthy(value) ==
    /\ value.t \notin {"undefined", "null", "NaN"}
    /\ value # Bool(FALSE)
    /\ value # Num(0)
    /\ value # Str("")

\* a LengthIsZero that misses the empty sequence
LengthIsZero_string(value) == value = Str("")

\* line 129: value.length === 0, for a value that is neither null nor undefined
LengthIsZero(value) == value = Arr(<< >>) \/ value = Str("")

RECURSIVE strip_disabled_scalars(_, _, _)
\* a stripping that leaves the empty sequences in
strip_disabled_scalars(entries, i, actions) ==
    IF i > Len(entries) THEN actions
    ELSE IF entries[i].val = Bool(FALSE) \/ entries[i].val = Num(0)
    THEN strip_disabled_scalars(entries, i + 1, Delete(actions, entries[i].k))
    ELSE IF ~CanRead(entries[i].val) THEN TypeError
    ELSE strip_disabled_scalars(entries, i + 1, actions)

RECURSIVE strip_disabled(_, _, _)
\* for (const [key, value] of Object.entries(actions)) ... delete actions[key];
\* value.length throws on a null or undefined descriptor
strip_disabled(entries, i, actions) ==
    IF i > Len(entries) THEN actions
    ELSE IF entries[i].val = Bool(FALSE) \/ entries[i].val = Num(0)
    THEN strip_disabled(entries, i + 1, Delete(actions, entries[i].k))
    ELSE IF ~CanRead(entries[i].val) THEN TypeError
    ELSE IF LengthIsZero(entries[i].val)
    THEN strip_disabled(entries, i + 1, Delete(actions, entries[i].k))
    ELSE strip_disabled(entries, i + 1, actions)

\* a filtering step that adds a resign pseudo-action before the stripping
filter_actions_resign(actions, NO_UNDO) ==
    LET a == IF NO_UNDO /\ HasKey(actions, "undo") THEN Delete(actions, "undo") ELSE actions
        b == Put(a, "_resign", Num(1))
    IN strip_disabled(b.kv, 1, b)

\* a filtering step that removes nothing
filter_actions_none(actions, NO_UNDO) == actions

\* lines 121-132: the actions left after undo removal and disabled-action stripping
filter_actions(actions, NO_UNDO) ==
    LET a == IF NO_UNDO /\ HasKey(actions, "undo") THEN Delete(actions, "undo") ELSE actions
    IN strip_disabled(a.kv, 1, a)

\* an isNaN that finds every element usable
isNaN_never(arg) == FALSE

\* isNaN(arg), for the elements the descriptors of the model hold: numbers,
\* NaN, undefined, objects and words
isNaN(arg) == arg.t \in {"NaN", "undefined", "object"} \/ (arg.t = "string" /\ arg.s # "")

\* a push that loses the entry
replay_push_skip(replay, entry) == replay

\* a push that puts the entry in front
replay_push_front(replay, entry) == <<entry>> \o replay

\* lines 150 and 153: ctx.replay.push(entry)
replay_push(replay, entry) == Append(replay, entry)

\* ctx.view.prompt.startsWith("Unknown state:")
startsWithUnknownState(prompt) == prompt = PROMPT_UNKNOWN

\* an IsMultiActive that knows the sentinel 'Both' alone
IsMultiActive_both(active) == active = Str("Both")

\* ctx.active === 'Both' || ctx.active === 'All'
IsMultiActive(active) == active = Str("Both") \/ active = Str("All")

\* line 163: ctx.state.active !== ctx.active && ctx.state.active !== "Both"
UndoActiveViolated(state, active) ==
    Get(state, "active") # active /\ Get(state, "active") # Str("Both")

\* line 166: ctx.state.seed !== prev_seed
UndoSeedViolated(state, seed) == ~StrictEq(Get(state, "seed"), seed)

\* an IsGameOver that finds no game over
IsGameOver_never(state) == FALSE

\* an IsGameOver that reads the field named status
IsGameOver_status(state) == Get(state, "status") = Str("game_over")

\* line 108: ctx.state.state === 'game_over'
IsGameOver(state) == Get(state, "state") = Str("game_over")

\* the Error objects
Err(name, message) == [name |-> name, message |-> message, diff_keys |-> << >>]
NoError == Err("", "")

\* sha1 digest: a name for exactly the content digested
sha1(tokens) == [sha1 |-> tokens]
BytesTokens(bytes) == [i \in 1..Len(bytes) |-> [tok |-> "byte", n |-> bytes[i]]]

\* lines 194-203: the game object of log_crash
game_of(c) ==
    Obj(<<Entry("setup", Obj(<<Entry("scenario", c.scenario),
                               Entry("player_count", Num(c.player_count)),
                               Entry("options", c.options)>>)),
          Entry("players", c.players),
          Entry("state", c.state),
          Entry("replay", Arr(c.replay))>>)

out_file_of(c) == [prefix |-> "crash-", hash |-> sha1(JSON_stringify(game_of(c))), ext |-> ".json"]
crash_file_of(c) == [prefix |-> "crash-", hash |-> sha1(BytesTokens(c.data)), ext |-> ""]

\* lines 187-222: the summary line
line_of(error, c, act, arg) ==
    [error |-> error.name, step |-> c.step, active |-> c.active,
     state |-> Get(c.state, "state"), action |-> act,
     args |-> IF act = Undefined THEN Undefined ELSE arg,
     setup |-> c.replay[1].el[3], data |-> crash_file_of(c).hash,
     dump |-> out_file_of(c), msg |-> error.message, keys |-> error.diff_keys]

(***************************************************************************)
(* State.                                                                  *)
(***************************************************************************)
VARIABLES
    env,            \* NO_ASSERT, NO_CRASH, NO_SCHEMA, NO_UNDO, MAX_STEPS, TIMEOUT (lines 10-15)
    RULES,          \* the rules module loaded at line 21
    answers,        \* the calls RULES has answered, each with its answer
    files,          \* the crash directory: the files known to exist, name -> content
    console,        \* the lines written by console.log
    clock,          \* Date.now()
    pc,             \* where fuzz stands: idle, loop, viewed, select, applied
    data,           \* fuzzerInputData
    remainingBytes, \* data.remainingBytes
    timeout,        \* line 40
    ctx,            \* lines 45-55
    state_freeze,   \* line 76
    action,         \* line 138
    args,           \* lines 139-152
    prev_seed,      \* line 140
    outcome,        \* how the current or the last invocation ended
    calls,          \* calls made to RULES by the current or the last invocation
    writes,         \* the names passed to fs.writeFileSync, in order
    runs            \* the invocations that have ended: input, outcome, replay

locals == <<data, remainingBytes, timeout, ctx, state_freeze, action, args, prev_seed>>
vars == <<env, RULES, answers, files, console, clock, pc, data, remainingBytes,
          timeout, ctx, state_freeze, action, args, prev_seed, outcome, calls,
          writes, runs>>

\* the environment of reference: nothing disabled, a step limit, no deadline
BaseEnv ==
    [NO_ASSERT |-> FALSE, NO_SCHEMA |-> FALSE, NO_CRASH |-> FALSE, NO_UNDO |-> FALSE,
     MAX_STEPS |-> 1, TIMEOUT |-> 0]

\* the environments: the one of reference and those that differ from it in
\* one setting (NO_ASSERT and NO_SCHEMA are set together)
Envs ==
    {BaseEnv,
     [BaseEnv EXCEPT !.NO_ASSERT = TRUE, !.NO_SCHEMA = TRUE],
     [BaseEnv EXCEPT !.NO_CRASH = TRUE],
     [BaseEnv EXCEPT !.NO_UNDO = TRUE],
     [BaseEnv EXCEPT !.MAX_STEPS = 0],
     [BaseEnv EXCEPT !.MAX_STEPS = -1],
     [BaseEnv EXCEPT !.TIMEOUT = 1]}

\* the free engines: with the optional assert_state, VIEW_SCHEMA and resign,
\* or with none of them
FreeEngines ==
    {[kind |-> "free", roles |-> <<"A", "B">>, scenarios |-> <<"S1", "S2">>,
      assert_state |-> caps, VIEW_SCHEMA |-> caps, resign |-> caps,
      termkey |-> "state", N |-> 0] :
        caps \in BOOLEAN}

\* the pass engines
PassEngines ==
    {[kind |-> "e2e", roles |-> <<"A", "B">>, scenarios |-> <<"S">>,
      assert_state |-> FALSE, VIEW_SCHEMA |-> FALSE, resign |-> FALSE,
      termkey |-> key, N |-> n] :
        key \in {"state", "status"}, n \in 1..2}

\* an engine without the optional capabilities is loaded with NO_ASSERT and
\* NO_SCHEMA unset
Loads ==
    {l \in [env : Envs, RULES : FreeEngines \cup PassEngines] :
        /\ ~l.RULES.assert_state => ~l.env.NO_ASSERT
        /\ l.RULES.kind = "e2e" => ~l.env.NO_UNDO}

\* the buffers handed to fuzz: one too short to start, one just long enough to
\* start, and those that leave 16 bytes or more after the seed and the scenario
Inputs ==
    {Buffer(n) : n \in {MIN_ENTROPY - 1, MIN_ENTROPY}
                        \cup (MIN_ENTROPY + SEED_BYTES + 1)..MaxLen}

NoCtx ==
    [data |-> << >>, player_count |-> 0, players |-> Arr(<< >>), scenario |-> Undefined,
     options |-> Obj(<< >>), replay |-> << >>, state |-> Obj(<< >>), active |-> Null,
     step |-> 0, view |-> Obj(<< >>)]
NoCalls == [setup |-> 0, view |-> 0, action |-> 0, assert_state |-> 0]
Running == [how |-> "running", exit |-> "", error |-> NoError]

Init ==
    /\ \E l \in Loads : env = l.env /\ RULES = l.RULES
    /\ answers = << >>
    /\ files = << >>
    /\ console = << >>
    /\ clock = 0
    /\ pc = "idle"
    /\ data = << >>
    /\ remainingBytes = 0
    /\ timeout = 0
    /\ ctx = NoCtx
    /\ state_freeze = << >>
    /\ action = Undefined
    /\ args = Undefined
    /\ prev_seed = Undefined
    /\ outcome = Running
    /\ calls = NoCalls
    /\ writes = << >>
    /\ runs = << >>

(***************************************************************************)
(* Calls to RULES.  A call already answered gets the same answer.          *)
(***************************************************************************)
Menu(call) ==
    IF RULES.kind = "e2e"
    THEN CASE call.fn = "setup" -> {PassSetup(RULES)}
           [] call.fn = "view" -> {PassView}
           [] call.fn = "action" -> {PassAction(RULES, call.state)}
           [] OTHER -> {[kind |-> "return"]}
    ELSE CASE call.fn = "setup" -> SetupMenu(call.seed)
           [] call.fn = "view" -> ViewMenu(call.state)
           [] call.fn = "action" -> ActionMenu(call.state, call.role, call.action)
           [] OTHER -> AssertMenu

Answers(call) == IF call \in DOMAIN answers THEN {answers[call]} ELSE Menu(call)
Answered(call, answer) ==
    answers' = IF call \in DOMAIN answers THEN answers ELSE answers @@ (call :> answer)

(***************************************************************************)
(* How an invocation ends.                                                 *)
(***************************************************************************)
Finish(out, input, c) ==
    /\ pc' = "idle"
    /\ outcome' = out
    /\ runs' = Append(runs, [data |-> input, outcome |-> out, replay |-> c.replay])

\* return
Returns(exit, input, c) ==
    /\ Finish([how |-> "return", exit |-> exit, error |-> NoError], input, c)
    /\ UNCHANGED <<files, console, writes>>

\* an exception that fuzz does not catch
Escapes(name, input, c) ==
    /\ Finish([how |-> "throw", exit |-> "exception", error |-> Err(name, "")], input, c)
    /\ UNCHANGED <<files, console, writes>>

\* the loop goes on
Goes(next) ==
    /\ pc' = next
    /\ UNCHANGED <<outcome, runs, files, console, writes>>

\* an existsSync that finds no file
existsSync_never(name) == FALSE

\* fs.existsSync(name)
existsSync(name) == name \in DOMAIN files

\* a writeFileSync that writes nothing
writeFileSync_lost(dir, name, content) == dir

\* fs.writeFileSync(name, content), on the directory dir
writeFileSync(dir, name, content) ==
    [n \in DOMAIN dir \cup {name} |-> IF n = name THEN content ELSE dir[n]]

\* a summary line that is never written again
LogsAgain_never == FALSE

\* line 229: else if (!NO_CRASH), the summary line of an artifact that exists
LogsAgain == ~env.NO_CRASH

\* a log_crash that raises the error only when it writes the artifact
log_crash_quiet(error, c, act, arg) ==
    LET out_file == out_file_of(c)
        crash_file == crash_file_of(c)
        line == line_of(error, c, act, arg)
        content == JSON_stringify(game_of(c))
    IN IF ~existsSync(out_file)
       THEN /\ console' = Append(console, line)
            /\ files' = IF env.NO_CRASH
                        THEN writeFileSync(writeFileSync(files, out_file, content),
                                           crash_file, BytesTokens(c.data))
                        ELSE writeFileSync(files, out_file, content)
            /\ writes' = IF env.NO_CRASH THEN writes \o <<out_file, crash_file>>
                         ELSE Append(writes, out_file)
            /\ Finish([how |-> IF env.NO_CRASH THEN "return" ELSE "throw",
                       exit |-> "violation", error |-> error], c.data, c)
       ELSE /\ console' = IF LogsAgain THEN Append(console, line) ELSE console
            /\ UNCHANGED <<files, writes>>
            /\ Finish([how |-> "return", exit |-> "violation", error |-> error],
                      c.data, c)

\* lines 184-235
log_crash(error, c, act, arg) ==
    LET out_file == out_file_of(c)
        crash_file == crash_file_of(c)
        line == line_of(error, c, act, arg)
        content == JSON_stringify(game_of(c))
    IN /\ IF ~existsSync(out_file)
          THEN /\ console' = Append(console, line)
               /\ files' = IF env.NO_CRASH
                           THEN writeFileSync(writeFileSync(files, out_file, content),
                                              crash_file, BytesTokens(c.data))
                           ELSE writeFileSync(files, out_file, content)
               /\ writes' = IF env.NO_CRASH THEN writes \o <<out_file, crash_file>>
                            ELSE Append(writes, out_file)
          ELSE /\ console' = IF LogsAgain THEN Append(console, line) ELSE console
               /\ UNCHANGED <<files, writes>>
       /\ Finish([how |-> IF env.NO_CRASH THEN "return" ELSE "throw",
                  exit |-> "violation", error |-> error], c.data, c)

(***************************************************************************)
(* fuzz(fuzzerInputData), lines 29-57: the host starts an invocation.      *)
(***************************************************************************)
FuzzStart(input) ==
    /\ pc = "idle"
    /\ Len(runs) < MaxRuns
    /\ data' = input
    /\ state_freeze' = << >>
    /\ action' = Undefined
    /\ args' = Undefined
    /\ prev_seed' = Undefined
    /\ UNCHANGED <<env, RULES, clock>>
    /\ IF InsufficientBytes(Len(input))
       THEN /\ remainingBytes' = Len(input)
            /\ timeout' = 0
            /\ ctx' = NoCtx
            /\ calls' = NoCalls
            /\ UNCHANGED answers
            /\ Returns("insufficient", input, NoCtx)
       ELSE LET s == consumeSeed(input, Len(input))
                sc == pickValue(input, s.remaining, RULES.scenarios)
                c0 == [data |-> input,
                       player_count |-> Len(RULES.roles),
                       players |-> Arr([i \in 1..Len(RULES.roles) |->
                                         Obj(<<Entry("role", Str(RULES.roles[i])),
                                               Entry("name", Str("rtt-fuzzer"))>>)]),
                       scenario |-> Str(sc.value),
                       options |-> Obj(<< >>),
                       replay |-> <<Arr(<<Null, Str(".setup"),
                                         Arr(<<Num(s.value), Str(sc.value), Obj(<< >>)>>)>>)>>,
                       state |-> Obj(<< >>),
                       active |-> Null,
                       step |-> 0,
                       view |-> Obj(<< >>)]
                call == [fn |-> "setup", seed |-> s.value, scenario |-> sc.value]
            IN /\ remainingBytes' = sc.remaining
               /\ timeout' = IF env.TIMEOUT # 0 THEN clock + env.TIMEOUT ELSE 0
               /\ calls' = [NoCalls EXCEPT !.setup = 1]
               /\ \E r \in Answers(call) :
                    /\ Answered(call, r)
                    /\ IF r.kind = "throw"
                       THEN /\ ctx' = c0
                            /\ Escapes("Error", input, c0)
                       ELSE /\ ctx' = [c0 EXCEPT !.state = r.state]
                            /\ outcome' = Running
                            /\ pc' = "loop"
                            /\ UNCHANGED <<runs, files, console, writes>>

\* a SkipReached that lets one more iteration run
SkipReached_late(step) == env.MAX_STEPS < 0 /\ step > -env.MAX_STEPS + 1

\* line 65: MAX_STEPS < 0 && ctx.step > -MAX_STEPS
SkipReached(step) == env.MAX_STEPS < 0 /\ step > -env.MAX_STEPS

(***************************************************************************)
(* Lines 60-83: the head of the loop, up to the call of RULES.view.        *)
(***************************************************************************)
LoopHead ==
    /\ pc = "loop"
    /\ env.MAX_STEPS # 0 \/ ctx.step <= StepCap
    /\ UNCHANGED <<env, RULES, clock, data, timeout, action, args, prev_seed>>
    /\ IF InsufficientBytes(remainingBytes)
       THEN /\ Returns("insufficient", data, ctx)
            /\ UNCHANGED <<remainingBytes, ctx, state_freeze, answers, calls>>
       ELSE IF SkipReached(ctx.step)
       THEN /\ Returns("skip", data, ctx)
            /\ UNCHANGED <<remainingBytes, ctx, state_freeze, answers, calls>>
       ELSE LET a0 == Get(ctx.state, "active")
                p == IF IsMultiActive(a0)
                     THEN pickValue(data, remainingBytes, RULES.roles)
                     ELSE [value |-> "", remaining |-> remainingBytes]
                active == IF IsMultiActive(a0) THEN Str(p.value) ELSE a0
                call == [fn |-> "view", state |-> ctx.state, role |-> active]
            IN /\ remainingBytes' = p.remaining
               /\ state_freeze' = JSON_stringify(ctx.state)
               /\ calls' = [calls EXCEPT !.view = @ + 1]
               /\ \E r \in Answers(call) :
                    /\ Answered(call, r)
                    /\ IF r.kind = "throw"
                       THEN LET c == [ctx EXCEPT !.active = active, !.view = Obj(<< >>)]
                            IN /\ ctx' = c
                               /\ log_crash(Err("RulesCrashError", "view"), c,
                                            Undefined, Undefined)
                       ELSE /\ ctx' = [ctx EXCEPT !.active = active, !.view = r.view,
                                                  !.state = Mutate(@, r.mutation)]
                            /\ Goes("viewed")

(***************************************************************************)
(* Lines 85-136: the checks made on the view, and the action filtering.    *)
(***************************************************************************)
\* line 93: rules_view_schema && !rules_view_schema(ctx.view)
SchemaFails(view) ==
    /\ ~env.NO_SCHEMA /\ RULES.VIEW_SCHEMA
    /\ ~rules_view_schema_validate(view)

\* a MaxStepsReached that fires one step late
MaxStepsReached_late(step) == env.MAX_STEPS > 0 /\ step > env.MAX_STEPS + 1

\* a MaxStepsReached that fires one step early
MaxStepsReached_early(step) == env.MAX_STEPS > 0 /\ step >= env.MAX_STEPS

\* line 85
MaxStepsReached(step) == env.MAX_STEPS > 0 /\ step > env.MAX_STEPS

\* a TimeoutReached that fires at the deadline, not past it
TimeoutReached_early(now) == env.TIMEOUT # 0 /\ now >= timeout

\* line 89
TimeoutReached(now) == env.TIMEOUT # 0 /\ now > timeout

\* line 97
StateMutated(freeze, state) == freeze # JSON_stringify(state)

\* a purity check that does not call view again
ViewCalledAgain_not(c) == c

\* line 100: RULES.view(deep_freeze(ctx.state), ctx.active), for its stack
ViewCalledAgain(c) == [c EXCEPT !.view = @ + 1]

\* what Date.now() may answer at line 89: the clock does not run backwards
Readings == IF env.TIMEOUT # 0 THEN clock..MaxClock ELSE {clock}

Checks ==
    /\ pc = "viewed"
    /\ UNCHANGED <<env, RULES, data, remainingBytes, timeout, state_freeze,
                   action, args, prev_seed, answers>>
    /\ clock' \in Readings
    /\ IF MaxStepsReached(ctx.step)
       THEN /\ UNCHANGED <<ctx, calls>>
            /\ log_crash(Err("MaxStepError", "MAX_STEPS reached"), ctx, Undefined, Undefined)
       ELSE IF TimeoutReached(clock')
       THEN /\ UNCHANGED <<ctx, calls>>
            /\ log_crash(Err("TimeoutError", "TIMEOUT reached"), ctx, Undefined, Undefined)
       ELSE IF SchemaFails(ctx.view)
       THEN /\ UNCHANGED <<ctx, calls>>
            /\ log_crash(Err("SchemaValidationError", "View data fails schema validation"),
                     ctx, Undefined, Undefined)
       ELSE IF StateMutated(state_freeze, ctx.state)
       THEN \* RULES.view is called once more, on the frozen state, for its stack
            LET diff == deep_compare(JSON_parse(state_freeze), ctx.state)
            IN /\ calls' = ViewCalledAgain(calls)
               /\ UNCHANGED ctx
               /\ IF diff = TypeError
                  THEN Escapes("TypeError", data, ctx)
                  ELSE log_crash([name |-> "ViewStateMutationError",
                              message |-> "View mutated state: ",
                              diff_keys |-> object_keypaths(diff, << >>)],
                             ctx, Undefined, Undefined)
       ELSE IF IsGameOver(ctx.state)
       THEN /\ UNCHANGED <<ctx, calls>>
            /\ Returns("game_over", data, ctx)
       ELSE IF Truthy(Get(ctx.view, "prompt"))
               /\ startsWithUnknownState(Get(ctx.view, "prompt"))
       THEN /\ UNCHANGED <<ctx, calls>>
            /\ log_crash(Err("UnknownStateError", "Unknown state"), ctx, Undefined, Undefined)
       ELSE IF ~Truthy(Get(ctx.view, "actions"))
       THEN /\ UNCHANGED <<ctx, calls>>
            /\ log_crash(Err("NoMoreActionsError", "No actions defined"), ctx,
                     Undefined, Undefined)
       ELSE LET actions == filter_actions(Get(ctx.view, "actions"), env.NO_UNDO)
            IN /\ UNCHANGED calls
               /\ IF actions = TypeError
                  THEN /\ UNCHANGED ctx
                       /\ Escapes("TypeError", data, ctx)
                  ELSE LET c == [ctx EXCEPT !.view = Put(@, "actions", actions)]
                       IN /\ ctx' = c
                          /\ IF Len(actions.kv) = 0
                             THEN log_crash(Err("NoMoreActionsError", ""), c,
                                        Undefined, Undefined)
                             ELSE Goes("select")

(***************************************************************************)
(* Lines 138-160: an action and its argument are picked, recorded in the   *)
(* replay and applied.                                                     *)
(***************************************************************************)
Select ==
    /\ pc = "select"
    /\ UNCHANGED <<env, RULES, clock, data, timeout, state_freeze>>
    /\ LET actions == Get(ctx.view, "actions")
           a == pickValue(data, remainingBytes, Keys(actions))
           descriptor == Get(actions, a.value)
       IN /\ action' = Str(a.value)
          /\ prev_seed' = Get(ctx.state, "seed")
          /\ IF descriptor.t = "array" /\ \E i \in 1..Len(descriptor.el) : isNaN(descriptor.el[i])
             THEN /\ remainingBytes' = a.remaining
                  /\ args' = descriptor
                  /\ UNCHANGED <<ctx, answers, calls>>
                  /\ log_crash(Err("InvalidActionArgument", "argument has NaN value"), ctx,
                           Undefined, Undefined)
             ELSE IF descriptor.t = "array" /\ Len(descriptor.el) = 0
             THEN \* data.pickValue throws on an empty array
                  /\ remainingBytes' = a.remaining
                  /\ args' = descriptor
                  /\ UNCHANGED <<ctx, answers, calls>>
                  /\ Escapes("Error", data, ctx)
             ELSE LET v == IF descriptor.t = "array"
                           THEN pickValue(data, a.remaining, descriptor.el)
                           ELSE [value |-> Undefined, remaining |-> a.remaining]
                      entry == IF descriptor.t = "array"
                               THEN Arr(<<ctx.active, Str(a.value), v.value>>)
                               ELSE Arr(<<ctx.active, Str(a.value)>>)
                      c == [ctx EXCEPT !.replay = replay_push(@, entry)]
                      call == [fn |-> "action", state |-> ctx.state, role |-> ctx.active.s,
                               action |-> a.value, args |-> v.value]
                  IN /\ remainingBytes' = v.remaining
                     /\ args' = v.value
                     /\ calls' = [calls EXCEPT !.action = @ + 1]
                     /\ \E r \in Answers(call) :
                          /\ Answered(call, r)
                          /\ IF r.kind = "throw"
                             THEN /\ ctx' = c
                                  /\ log_crash(Err("RulesCrashError", "action"), c,
                                           Str(a.value), v.value)
                             ELSE /\ ctx' = [c EXCEPT !.state = r.state]
                                  /\ Goes("applied")

(***************************************************************************)
(* Lines 162-179: the checks made on the new state.                        *)
(***************************************************************************)
\* an AssertEnabled that ignores NO_ASSERT
AssertEnabled_always == RULES.assert_state

\* line 171: !NO_ASSERT && RULES.assert_state
AssertEnabled == ~env.NO_ASSERT /\ RULES.assert_state

Post ==
    /\ pc = "applied"
    /\ UNCHANGED <<env, RULES, clock, data, remainingBytes, timeout, state_freeze,
                   action, args, prev_seed>>
    /\ IF action = Str("undo") /\ UndoActiveViolated(ctx.state, ctx.active)
       THEN /\ UNCHANGED <<ctx, answers, calls>>
            /\ log_crash(Err("UndoActiveError", "undo caused active to switch"), ctx,
                     action, args)
       ELSE IF action = Str("undo") /\ UndoSeedViolated(ctx.state, prev_seed)
       THEN /\ UNCHANGED <<ctx, answers, calls>>
            /\ log_crash(Err("UndoSeedError", "undo caused seed change"), ctx, action, args)
       ELSE IF AssertEnabled
       THEN LET call == [fn |-> "assert_state", state |-> ctx.state]
            IN /\ calls' = [calls EXCEPT !.assert_state = @ + 1]
               /\ \E r \in Answers(call) :
                    /\ Answered(call, r)
                    /\ IF r.kind = "throw"
                       THEN /\ UNCHANGED ctx
                            /\ log_crash(Err("RulesAssertError", "assert_state"), ctx,
                                     action, args)
                       ELSE /\ ctx' = [ctx EXCEPT !.step = @ + 1]
                            /\ Goes("loop")
       ELSE /\ ctx' = [ctx EXCEPT !.step = @ + 1]
            /\ UNCHANGED <<answers, calls>>
            /\ Goes("loop")

(***************************************************************************)
(* The host feeds the input of the invocation that has ended once more,    *)
(* or that input with one more byte in front.                              *)
(***************************************************************************)
FuzzAgain ==
    /\ runs # << >>
    /\ \E input \in {runs[Len(runs)].data, <<0>> \o runs[Len(runs)].data} :
         FuzzStart(input)

Next ==
    \/ \E input \in Inputs : runs = << >> /\ FuzzStart(input)
    \/ LoopHead
    \/ Checks
    \/ Select
    \/ Post

\* one invocation of fuzz
Spec == Init /\ [][Next]_vars

\* the host calls fuzz
Begins == pc = "idle" /\ runs = << >> /\ data' \in Inputs

\* fuzz, once called, executes its next statements: each of LoopHead, Checks,
\* Select and Post moves to another place of the loop or ends the call (past
\* StepCap iterations of a loop without step limit the model follows it no
\* further)
MovesOn ==
    /\ pc # "idle"
    /\ env.MAX_STEPS # 0 \/ ctx.step <= StepCap \/ pc # "loop"
    /\ pc' \in {"idle", "loop", "viewed", "select", "applied"} \ {pc}

\* one invocation of fuzz, called by the host and executed without pause:
\* JavaScript runs a call to completion
SpecFair == Spec /\ WF_data(Begins) /\ WF_pc(MovesOn)

\* a host that feeds its input again, to a free engine without optional
\* capabilities or to a pass engine, with a step limit; the deadline is set
\* for the pass engine
InitHost ==
    /\ Init
    /\ ~RULES.assert_state /\ ~env.NO_UNDO /\ env.MAX_STEPS = 1
    /\ RULES.kind = "e2e" => RULES.N = 1 /\ RULES.termkey = "state"
    /\ env.TIMEOUT # 0 => RULES.kind = "e2e"

NextHost == Next \/ FuzzAgain

SpecHost == InitHost /\ [][NextHost]_vars

(***************************************************************************)
(* Properties.                                                             *)
(***************************************************************************)
\* the violations of the taxonomy
Taxonomy ==
    {"RulesCrashError", "SchemaValidationError", "UnknownStateError",
     "NoMoreActionsError", "InvalidActionArgument", "ViewStateMutationError",
     "UndoActiveError", "UndoSeedError", "MaxStepError", "TimeoutError",
     "RulesAssertError"}

\* an invocation has ended
Ended == pc = "idle" /\ runs # << >>

\* invocation i was ended by the deadline
EndedByDeadline(i) == runs[i].outcome.error.name = "TimeoutError"

\* C1 (as stated): two runs of fuzz on the same buffer, against the same
\* deterministic rules module and configuration, have the same replay and
\* the same terminal classification, a deadline being configured or not.
C1_Determinism ==
    \A i, j \in 1..Len(runs) :
        runs[i].data = runs[j].data
            => runs[i].replay = runs[j].replay /\ runs[i].outcome = runs[j].outcome

\* C1 (amended): two runs of fuzz on the same buffer, against the same
\* deterministic rules module and configuration, have the same replay and
\* the same terminal classification, provided the deadline ends neither.
C1_DeterminismWithoutDeadline ==
    \A i, j \in 1..Len(runs) :
        runs[i].data = runs[j].data /\ ~EndedByDeadline(i) /\ ~EndedByDeadline(j)
            => runs[i].replay = runs[j].replay /\ runs[i].outcome = runs[j].outcome

\* two runs on the same buffer, under a deadline, that both reach game over
C1_Witness ==
    /\ Len(runs) = 2 /\ env.TIMEOUT # 0
    /\ runs[1].data = runs[2].data
    /\ runs[1].outcome.exit = "game_over" /\ runs[2].outcome.exit = "game_over"
    /\ Len(runs[2].replay) > 1

\* C2: whatever the buffer and the rules module do, an exception that leaves
\* fuzz is one of the classified violations of the taxonomy.
C2_HostBoundary == outcome.how = "throw" => outcome.error.name \in Taxonomy

\* C3: on a buffer of fewer than 16 bytes fuzz returns normally, calls
\* neither setup, view nor action, and writes no file.
C3_ShortInputSilent ==
    Ended /\ Len(data) < MIN_ENTROPY
        => /\ outcome.how = "return" /\ outcome.error = NoError
           /\ calls = NoCalls
           /\ writes = << >> /\ files = << >> /\ console = << >>

\* a run on a buffer of 15 bytes has ended
C3_Witness == Ended /\ Len(data) = MIN_ENTROPY - 1 /\ outcome.how = "return"

\* every action of the mapping is disabled: its descriptor is false, 0 or an
\* empty sequence, or it is undo while NO_UNDO is set
DeadEndActions(actions) ==
    /\ actions.t = "object"
    /\ \A i \in 1..Len(actions.kv) :
          \/ actions.kv[i].val \in {Bool(FALSE), Num(0), Arr(<< >>)}
          \/ env.NO_UNDO /\ actions.kv[i].k = "undo"

\* the view just computed shows a dead end of a game that is not over
AtDeadEnd ==
    /\ pc = "viewed"
    /\ ~(Get(ctx.state, "state") = Str("game_over"))
    /\ DeadEndActions(Get(ctx.view, "actions"))

\* the run ends now with NoActions, no action applied
EndsWithNoActions ==
    /\ pc' = "idle"
    /\ outcome'.exit = "violation" /\ outcome'.error.name = "NoMoreActionsError"
    /\ calls'.action = calls.action
    /\ ctx'.state = ctx.state /\ ctx'.replay = ctx.replay

\* C4 (as stated): in an iteration where the game is not over and every
\* action of the view is disabled (or there is none), the run ends in that
\* iteration with NoActions, and no action is applied.
C4_DeadEnd == [][AtDeadEnd => EndsWithNoActions]_vars

\* a check made before the action-availability check fires
EarlierCheckFires ==
    \/ MaxStepsReached(ctx.step)
    \/ TimeoutReached(clock')
    \/ SchemaFails(ctx.view)
    \/ StateMutated(state_freeze, ctx.state)
    \/ Get(ctx.view, "prompt") = PROMPT_UNKNOWN

\* C4 (amended): in an iteration where the game is not over, every action of
\* the view is disabled (or there is none), and none of the checks made
\* before (step limit, deadline, schema, view purity, unknown state) fires,
\* the run ends in that iteration with NoActions, and no action is applied.
C4_DeadEndUnlessEarlierCheck ==
    [][AtDeadEnd /\ ~EarlierCheckFires => EndsWithNoActions]_vars

\* a run ended with NoActions on a view whose only actions were undo, removed
\* under NO_UNDO, and a disabled pass
C4_Witness ==
    /\ Ended /\ env.NO_UNDO
    /\ outcome.error.name = "NoMoreActionsError"
    /\ Get(ctx.view, "actions") = Obj(<< >>)
    /\ \E call \in DOMAIN answers :
          /\ call.fn = "view" /\ call.state = ctx.state /\ call.role = ctx.active
          /\ answers[call].kind = "return"
          /\ Get(answers[call].view, "actions") = A_undo_disabled

\* the state returned by the action just applied, against the acting role
\* and the seed held before
SeedChanged == Get(ctx.state, "seed") # prev_seed
ActiveKept ==
    \/ Get(ctx.state, "active") = ctx.active
    \/ Get(ctx.state, "active") \in {Str("Both"), Str("All")}
ActiveIsOtherRole ==
    /\ Get(ctx.state, "active") # ctx.active
    /\ Get(ctx.state, "active") \notin {Str("Both"), Str("All")}

\* C5: after undo, a changed seed (active kept) ends the run with UndoSeed
\* and an active that is another concrete role ends it with UndoActive;
\* after any other action neither violation is raised.
C5_UndoViolationsDetected ==
    [][pc = "applied" =>
        IF action = Str("undo")
        THEN /\ SeedChanged /\ ActiveKept => outcome'.error.name = "UndoSeedError"
             /\ ActiveIsOtherRole => outcome'.error.name = "UndoActiveError"
        ELSE outcome'.error.name \notin {"UndoSeedError", "UndoActiveError"}]_vars

\* C6: after an undo that keeps the seed and returns active equal to the
\* acting role, to 'Both' or to 'All', neither UndoActive nor UndoSeed is
\* raised.
C6_WellBehavedUndo ==
    [][pc = "applied" /\ action = Str("undo") /\ ~SeedChanged /\ ActiveKept
        => outcome'.error.name \notin {"UndoSeedError", "UndoActiveError"}]_vars

\* the name of a crash artifact
IsArtifact(name) == name.ext = ".json"

\* C7: over the invocations of fuzz, each crash artifact is written at most
\* once; a violation whose artifact exists leaves it as it is.
C7_WriteOnce ==
    /\ \A i, j \in 1..Len(writes) :
          IsArtifact(writes[i]) /\ writes[i] = writes[j] => i = j
    /\ \A i \in 1..Len(writes) : writes[i] \in DOMAIN files

\* two runs ended with the same violation and one artifact was written
C7_Witness ==
    /\ Len(runs) = 2 /\ pc = "idle"
    /\ runs[1].outcome.exit = "violation" /\ runs[2].outcome = runs[1].outcome
    /\ runs[2].replay = runs[1].replay
    /\ Len(writes) = 1 /\ IsArtifact(writes[1])
    /\ DOMAIN files = {writes[1]}

\* the run of the scenario: the pass engine, enough bytes after the seed, N
\* within the step limit, and the deadline not met
ScenarioRun(termkey) ==
    /\ Ended
    /\ RULES.kind = "e2e" /\ RULES.termkey = termkey
    /\ Len(data) - SEED_BYTES >= MIN_ENTROPY
    /\ env.MAX_STEPS # 0 => RULES.N <= (IF env.MAX_STEPS > 0 THEN env.MAX_STEPS ELSE -env.MAX_STEPS)
    /\ outcome.error.name # "TimeoutError"

\* the run ended at the game-over break with a replay of N + 1 entries
EndedAtGameOver ==
    /\ outcome.how = "return" /\ outcome.exit = "game_over" /\ outcome.error = NoError
    /\ Len(ctx.replay) = RULES.N + 1
    /\ \A i \in 2..Len(ctx.replay) : ctx.replay[i].el[2] = Str("pass")

C9_ViewPurity ==
    [][/\ pc = "viewed"
       /\ state_freeze # JSON_stringify(ctx.state)
       /\ ~MaxStepsReached(ctx.step) /\ ~TimeoutReached(clock') /\ ~SchemaFails(ctx.view)
       => /\ pc' = "idle"
          /\ outcome'.exit = "violation"
          /\ outcome'.error.name = "ViewStateMutationError"
          /\ calls'.action = calls.action]_vars

\* the keys of an object, as a set
KeySet(obj) == IF obj.t = "object" THEN {obj.kv[i].k : i \in 1..Len(obj.kv)} ELSE {}

RECURSIVE DiffPaths(_, _, _)
\* the key paths at which b differs from a: changed, added and removed keys
DiffPaths(a, b, prefix) ==
    IF a = b THEN {}
    ELSE IF a.t = "object" /\ b.t = "object"
    THEN UNION {DiffPaths(Get(a, k), Get(b, k), Append(prefix, k)) :
                  k \in KeySet(a) \cup KeySet(b)}
    ELSE {prefix}

\* C10: the key paths reported by a ViewStateMutation violation are exactly
\* those at which the state after view differs from the snapshot.
C10_ReportedKeyPaths ==
    Ended /\ outcome.error.name = "ViewStateMutationError"
        => {outcome.error.diff_keys[i] : i \in 1..Len(outcome.error.diff_keys)}
              = DiffPaths(JSON_parse(state_freeze), ctx.state, << >>)

\* a step of the run that is not over
Running_step == outcome.how = "running"

\* view returned, left the state different from the snapshot, and none of the
\* checks made before the purity check fires: the mutation is detected
MutationDetected ==
    /\ pc = "viewed"
    /\ state_freeze # JSON_stringify(ctx.state)
    /\ ~(env.MAX_STEPS > 0 /\ ctx.step > env.MAX_STEPS)
    /\ ~(env.TIMEOUT # 0 /\ clock' > timeout)
    /\ ~SchemaFails(ctx.view)

\* C11: a step that detects a violation ends the run with that violation,
\* the step counter as it was; fuzz returns normally when NO_CRASH is set
\* and raises the violation when it is not.
C11_CrashSuppression ==
    [][Running_step /\ (outcome'.exit = "violation" \/ MutationDetected)
        => /\ pc' = "idle"
           /\ outcome'.exit = "violation"
           /\ outcome'.how = (IF env.NO_CRASH THEN "return" ELSE "throw")
           /\ ctx'.step = ctx.step]_vars

\* the step writes one summary line, which names the violation and the artifact
WritesSummary ==
    /\ Len(console') = Len(console) + 1
    /\ console'[Len(console')].error = outcome'.error.name
    /\ console'[Len(console')].dump = out_file_of(ctx')

C13_PositiveStepLimit ==
    [][pc # "idle" =>
        (outcome'.error.name = "MaxStepError"
            <=> pc = "viewed" /\ env.MAX_STEPS > 0 /\ ctx.step > env.MAX_STEPS)]_vars

\* a run ended with MaxSteps in the first iteration past the limit
C13_Witness ==
    /\ Ended /\ outcome.error.name = "MaxStepError"
    /\ env.MAX_STEPS > 0 /\ ctx.step = env.MAX_STEPS + 1
    /\ calls.view = ctx.step + 1 /\ calls.action = ctx.step

\* the step returns from fuzz without a call to RULES, a file or a line
ReturnsSilently ==
    /\ pc' = "idle"
    /\ outcome'.how = "return" /\ outcome'.error = NoError
    /\ calls' = calls
    /\ files' = files /\ writes' = writes /\ console' = console

\* C14: with MAX_STEPS = -N, at the head of an iteration with 16 bytes or
\* more left, fuzz returns silently, before view is called, exactly when the
\* step counter is greater than N; the counter never passes N + 1.
C14_NegativeStepLimit ==
    [][pc = "loop" /\ remainingBytes >= MIN_ENTROPY
        => /\ (env.MAX_STEPS < 0 /\ ctx.step > -env.MAX_STEPS) <=> ReturnsSilently
           /\ env.MAX_STEPS < 0 => ctx.step <= -env.MAX_STEPS + 1]_vars

\* a run under MAX_STEPS = -1 stopped at the head of its third iteration
C14_Witness ==
    /\ Ended /\ env.MAX_STEPS < 0
    /\ outcome.how = "return" /\ outcome.exit = "skip"
    /\ ctx.step = -env.MAX_STEPS + 1 /\ remainingBytes >= MIN_ENTROPY
    /\ calls.view = ctx.step /\ files = << >>

\* C15: when a violation has been raised to the caller, the artifact of its
\* key is on disk, holding the serialized game.
C15_PersistedBeforeRaise ==
    pc = "idle" /\ outcome.how = "throw" /\ outcome.exit = "violation"
        => /\ out_file_of(ctx) \in DOMAIN files
           /\ files[out_file_of(ctx)] = JSON_stringify(game_of(ctx))

\* a second run raised the violation of the first, whose artifact it found
C15_Witness ==
    /\ Len(runs) = 2 /\ pc = "idle"
    /\ runs[1].outcome.how = "throw" /\ runs[1].outcome.exit = "violation"
    /\ outcome.how = "throw" /\ outcome.exit = "violation"
    /\ writes = <<out_file_of(ctx)>>

\* the serialized artifact names a violation of the taxonomy
HoldsClassification(content) ==
    \E i \in 1..Len(content) : content[i].tok = "str" /\ content[i].s \in Taxonomy

\* C16: every crash artifact on disk holds the setup parameters, the
\* players, the final state, the replay and the classification of the
\* violation.
C16_ArtifactHoldsClassification ==
    \A f \in DOMAIN files :
        IsArtifact(f)
            => /\ Keys(JSON_parse(files[f])) = <<"setup", "players", "state", "replay">>
               /\ HoldsClassification(files[f])

\* C17: under NO_CRASH every violation leaves on disk the raw-input file of
\* the input of its run, also when the artifact was written for another
\* input; without NO_CRASH no raw-input file is written.
C17_RawInputPersisted ==
    /\ pc = "idle" /\ env.NO_CRASH /\ outcome.exit = "violation"
          => /\ crash_file_of(ctx) \in DOMAIN files
             /\ files[crash_file_of(ctx)] = BytesTokens(data)
    /\ ~env.NO_CRASH => \A f \in DOMAIN files : IsArtifact(f)

\* C18: a step ends the run with Timeout only if TIMEOUT is positive, view
\* has returned in this iteration and the clock read in it is past the
\* deadline; the deadline is the clock at the start of the run plus TIMEOUT
\* and stays; the clock is read only after view has returned.
C18_Deadline ==
    [][/\ pc # "idle" /\ outcome'.error.name = "TimeoutError"
            => env.TIMEOUT > 0 /\ pc = "viewed" /\ clock' > timeout
       /\ pc = "idle" /\ pc' # "idle" /\ env.TIMEOUT # 0
            => timeout' = clock + env.TIMEOUT
       /\ pc # "idle" => timeout' = timeout
       /\ clock' # clock => pc = "viewed"]_vars

\* a run ended with Timeout, the clock past the deadline
C18_Witness ==
    /\ Ended /\ outcome.error.name = "TimeoutError"
    /\ env.TIMEOUT > 0 /\ clock > timeout
    /\ calls.view = ctx.step + 1

\* C19: in an iteration where view changed the state and the positive step
\* limit is exceeded, or the deadline has passed, or the view fails its
\* schema, the violation reported is ViewStateMutation.
C19_PurityCheckedFirst ==
    [][/\ pc = "viewed"
       /\ state_freeze # JSON_stringify(ctx.state)
       /\ \/ env.MAX_STEPS > 0 /\ ctx.step > env.MAX_STEPS
          \/ env.TIMEOUT # 0 /\ clock' > timeout
          \/ SchemaFails(ctx.view)
       => outcome'.error.name = "ViewStateMutationError"]_vars

\* a violation detected by a check of fuzz, not by a call that throws
CheckedViolation ==
    /\ pc # "idle" /\ outcome'.exit = "violation"
    /\ outcome'.error.name \notin {"RulesCrashError", "RulesAssertError"}

\* C20 (as stated): a step that detects a violation makes no further call
\* to RULES before it hands over to log_crash.
C20_HaltsWithoutFurtherCall == [][CheckedViolation => calls' = calls]_vars

\* C20 (amended): a step that detects a violation makes no further call to
\* RULES, except that on ViewStateMutation view is called once more.
C20_HaltsButForSecondView ==
    [][CheckedViolation
        => calls' = IF outcome'.error.name = "ViewStateMutationError"
                    THEN [calls EXCEPT !.view = @ + 1]
                    ELSE calls]_vars

\* a run ended with ViewStateMutation in its first iteration, view called twice
C20_Witness ==
    /\ Ended /\ outcome.error.name = "ViewStateMutationError"
    /\ ctx.step = 0
    /\ calls = [setup |-> 1, view |-> 2, action |-> 0, assert_state |-> 0]

(***************************************************************************)
(* C21.  A terminal state ends the run cleanly.  In an iteration whose     *)
(* state carries the terminal marker and whose view call, step and time    *)
(* limits, schema check and purity check pass, fuzz returns normally and   *)
(* writes nothing; no action is applied to a terminal state; and a         *)
(* terminal state never ends a run with UnknownStateError,                 *)
(* NoMoreActionsError or InvalidActionArgument, whatever its view holds.   *)
(* The terminal marker is 'game_over' in the field the driver reads.       *)
(***************************************************************************)
IsTerminal(state) == Get(state, "state") = Str("game_over")

\* the violations a view can provoke after the terminal check
ViewViolations == {"UnknownStateError", "NoMoreActionsError", "InvalidActionArgument"}

C22_EntropyCheckedFirst ==
    [][(pc = "loop" /\ remainingBytes < MIN_ENTROPY)
       => /\ pc' = "idle"
          /\ outcome' = [how |-> "return", exit |-> "insufficient", error |-> NoError]
          /\ UNCHANGED <<calls, answers, files, console, writes, ctx>>]_vars

\* the step counter is past the limit, positive or negative, that is set
PastStepLimit == env.MAX_STEPS # 0 /\ ctx.step > (IF env.MAX_STEPS > 0 THEN env.MAX_STEPS ELSE -env.MAX_STEPS)

\* a run has ended on the entropy check at a terminal state
C22_WitnessTerminal ==
    /\ Ended
    /\ outcome.exit = "insufficient"
    /\ ctx.step > 0
    /\ IsTerminal(ctx.state)

\* a run has ended on the entropy check in a state for which the engine
\* offers no legal action
C22_WitnessNoActions ==
    /\ Ended
    /\ outcome.exit = "insufficient"
    /\ ctx.replay # << >>
    /\ RULES.kind = "free"
    /\ Returned(MkView(PROMPT_OK, A_empty), "none") \in ViewMenu(ctx.state)

\* a run has ended on the entropy check past the step limit
C22_Witness ==
    /\ Ended
    /\ outcome.exit = "insufficient"
    /\ remainingBytes < MIN_ENTROPY
    /\ PastStepLimit

(***************************************************************************)
(* C23.  A scalar descriptor is passed as-is: when the descriptor of the   *)
(* chosen action is a scalar (a number or a boolean, not a sequence),      *)
(* RULES.action is called with that scalar as its argument, and no input   *)
(* byte is consumed for the argument.                                      *)
(***************************************************************************)
\* the descriptor of the action that was chosen, in the filtered actions
ChosenDescriptor == Get(Get(ctx.view, "actions"), action.s)

\* the calls of RULES.action that have been answered
ActionCalls == {call \in DOMAIN answers : call.fn = "action"}

C23_ScalarPassedAsIs ==
    (pc = "applied" /\ ChosenDescriptor.t \in {"number", "boolean"})
    => /\ args = ChosenDescriptor
       /\ \E call \in ActionCalls :
            call.action = action.s /\ call.args = ChosenDescriptor

(***************************************************************************)
(* C24.  Invalid enumerated argument: when the descriptor of the chosen    *)
(* action is a sequence that holds a NaN entry, the run ends with          *)
(* InvalidActionArgument before an argument is drawn: the action is not    *)
(* applied, the state is unchanged and no replay entry is appended.        *)
(***************************************************************************)
\* the action the next pick chooses among the filtered actions, and what the
\* pick leaves of the input
NextPick == pickValue(data, remainingBytes, Keys(Get(ctx.view, "actions")))

\* a sequence with a NaN entry
HasNaNEntry(descriptor) ==
    /\ descriptor.t = "array"
    /\ \E i \in 1..Len(descriptor.el) : descriptor.el[i] = NaN

C24_InvalidArgument ==
    [][(pc = "select" /\ HasNaNEntry(Get(Get(ctx.view, "actions"), NextPick.value)))
       => /\ pc' = "idle"
          /\ outcome'.exit = "violation"
          /\ outcome'.error.name = "InvalidActionArgument"
          /\ remainingBytes' = NextPick.remaining
          /\ UNCHANGED <<ctx, calls, answers>>
          /\ runs'[Len(runs')].replay = ctx.replay]_vars

\* a run has ended with InvalidActionArgument on a sequence with a NaN entry
C24_Witness ==
    /\ Ended
    /\ outcome.error.name = "InvalidActionArgument"
    /\ HasNaNEntry(args)
    /\ calls.action = 0
    /\ Len(ctx.replay) = 1

(***************************************************************************)
(* C25.  The replay is appended before the action is applied: when         *)
(* RULES.action raises, the run ends with RulesCrashError, the last replay *)
(* entry is the (role, action, argument?) triple of the call that raised,  *)
(* the state recorded in the artifact is the state held before the action, *)
(* and the step counter is not incremented.                                *)
(***************************************************************************)
\* the last entry of a replay
LastEntry(replay) == replay[Len(replay)]

\* this step calls RULES.action, and the call raises
ActionRaises == pc = "select" /\ calls'.action = calls.action + 1 /\ pc' = "idle"

C25_ReplayBeforeAction ==
    [][ActionRaises
       => LET e == LastEntry(ctx'.replay)
              d == Get(Get(ctx.view, "actions"), action'.s)
          IN /\ outcome'.exit = "violation"
             /\ outcome'.error.name = "RulesCrashError"
             /\ Len(ctx'.replay) = Len(ctx.replay) + 1
             /\ \A i \in 1..Len(ctx.replay) : ctx'.replay[i] = ctx.replay[i]
             /\ Len(e.el) = (IF d.t = "array" THEN 3 ELSE 2)
             /\ e.el[1] = ctx.active
             /\ e.el[2] = action'
             /\ Len(e.el) = 3 => e.el[3] = args'
             /\ \E call \in DOMAIN answers' :
                  /\ answers'[call] = Threw
                  /\ call.fn = "action"
                  /\ call.state = ctx.state
                  /\ Str(call.role) = e.el[1]
                  /\ Str(call.action) = e.el[2]
                  /\ call.args = args'
             /\ ctx'.state = ctx.state
             /\ ctx'.step = ctx.step
             /\ runs'[Len(runs')].replay = ctx'.replay
             /\ out_file_of(ctx') \in DOMAIN files'
             /\ files'[out_file_of(ctx')] = JSON_stringify(game_of(ctx'))
             /\ LastEntry(console').step = ctx.step]_vars

\* a run has ended on an action that raised when called with an argument
C25_Witness ==
    /\ Ended
    /\ outcome.error = Err("RulesCrashError", "action")
    /\ calls.action = 1
    /\ Len(LastEntry(ctx.replay).el) = 3
    /\ LastEntry(ctx.replay).el[3] = args

(***************************************************************************)
(* C26.  Replay and step counter: at the start of every iteration the      *)
(* replay has exactly step + 1 entries; entry 0 is the setup entry         *)
(* [null, ".setup", [seed, scenario, options]] and never changes; entries  *)
(* 1..step are the triples of the actions applied, in order (an entry once *)
(* pushed is never changed, and each action applied pushes its own triple  *)
(* at the end); at a violation the replay has step + 1 or step + 2         *)
(* entries.                                                                *)
(***************************************************************************)
\* the setup entry of a run on the input bytes with the scenario chosen
SetupEntry(bytes, scenario) ==
    Arr(<<Null, Str(".setup"),
          Arr(<<Num(consumeSeed(bytes, Len(bytes)).value), scenario, Obj(<< >>)>>)>>)

\* replay p is the beginning of replay q
IsPrefix(p, q) == Len(p) <= Len(q) /\ \A i \in 1..Len(p) : q[i] = p[i]

\* this step applies an action: RULES.action is called and returns
ActionApplied == pc = "select" /\ pc' = "applied"

C26_ReplayAndStep ==
    [][/\ pc' = "loop" => Len(ctx'.replay) = ctx'.step + 1
       /\ pc' # "idle" =>
            /\ ctx'.replay[1] = SetupEntry(data', ctx'.scenario)
            /\ \E call \in DOMAIN answers' :
                 /\ call.fn = "setup"
                 /\ Num(call.seed) = ctx'.replay[1].el[3].el[1]
                 /\ Str(call.scenario) = ctx'.replay[1].el[3].el[2]
       /\ pc # "idle" => IsPrefix(ctx.replay, ctx'.replay)
       /\ ActionApplied =>
            /\ Len(ctx'.replay) = Len(ctx.replay) + 1
            /\ Len(ctx'.replay) = ctx'.step + 2
            /\ LastEntry(ctx'.replay).el[1] = ctx.active
            /\ LastEntry(ctx'.replay).el[2] = action'
            /\ Len(LastEntry(ctx'.replay).el) = 3 => LastEntry(ctx'.replay).el[3] = args'
       /\ (pc # "idle" /\ pc' = "idle" /\ outcome'.exit = "violation") =>
            /\ Len(ctx'.replay) \in {ctx'.step + 1, ctx'.step + 2}
            /\ runs'[Len(runs')].replay = ctx'.replay]_vars

\* an iteration starts after two actions, with three replay entries
C26_WitnessLoop == pc = "loop" /\ ctx.step = 2 /\ Len(ctx.replay) = 3

\* a violation after the first step with the entry of the action that was
\* being checked
C26_Witness ==
    /\ Ended
    /\ outcome.exit = "violation"
    /\ ctx.step = 1
    /\ Len(ctx.replay) = ctx.step + 2

(***************************************************************************)
(* C27.  Role resolution: in every iteration the acting role is            *)
(* state.active when that is not a multiple-roles sentinel ('Both' or      *)
(* 'All'), and a member of the role list of the rules module when it is;   *)
(* the same acting role is passed to view, recorded in the replay entry    *)
(* and passed to action in that iteration.                                 *)
(***************************************************************************)
Sentinel(active) == active \in {Str("Both"), Str("All")}

RoleList == {Str(RULES.roles[i]) : i \in 1..Len(RULES.roles)}

\* this step calls RULES.view
ViewCalled == pc = "loop" /\ calls'.view = calls.view + 1

\* this step calls RULES.action
ActionCalled == pc = "select" /\ calls'.action = calls.action + 1

C27_RoleResolution ==
    [][/\ ViewCalled =>
            /\ ~Sentinel(Get(ctx.state, "active")) => ctx'.active = Get(ctx.state, "active")
            /\ Sentinel(Get(ctx.state, "active")) => ctx'.active \in RoleList
            /\ [fn |-> "view", state |-> ctx.state, role |-> ctx'.active] \in DOMAIN answers'
       /\ pc \in {"viewed", "select", "applied"} => ctx'.active = ctx.active
       /\ ActionCalled =>
            /\ LastEntry(ctx'.replay).el[1] = ctx.active
            /\ \E call \in DOMAIN answers' :
                 /\ call.fn = "action"
                 /\ call.state = ctx.state
                 /\ Str(call.role) = ctx.active
                 /\ Str(call.action) = action']_vars

\* an action has been applied by a role picked for a state whose active is
\* the sentinel 'All'
C27_Witness ==
    /\ pc = "applied"
    /\ ctx.step = 0
    /\ \E call \in DOMAIN answers :
         /\ call.fn = "setup"
         /\ answers[call].kind = "return"
         /\ Get(answers[call].state, "active") = Str("All")
    /\ ctx.active \in RoleList
    /\ LastEntry(ctx.replay).el[1] = ctx.active

(***************************************************************************)
(* C28.  Action filtering does not mutate the View of the rules module:    *)
(* after the filtering step (undo removal and disabled-action stripping)   *)
(* the actions mapping of the View object that RULES.view returned has the *)
(* keys and values it had when it was returned.                            *)
(***************************************************************************)
\* what RULES.view answered in the current iteration, as it was answered;
\* ctx.view is the object itself
ViewAsReturned == answers[[fn |-> "view", state |-> ctx.state, role |-> ctx.active]].view

C28_FilteringKeepsView ==
    pc = "select" => Get(ctx.view, "actions") = Get(ViewAsReturned, "actions")

(***************************************************************************)
(* C29.  Only enabled actions are applied: every action the driver applies *)
(* was a key of the actions mapping of the current view, as returned, with *)
(* a descriptor that is not false, not 0 and not an empty sequence; it is  *)
(* never undo when NO_UNDO is set; and when the descriptor is a non-empty  *)
(* sequence the argument chosen is one of its elements.                    *)
(***************************************************************************)
\* the descriptors of a disabled action
Disabled == {Bool(FALSE), Num(0), Arr(<< >>)}

C29_OnlyEnabledApplied ==
    [][ActionCalled =>
         LET offered == Get(ViewAsReturned, "actions")
             d == Get(offered, action'.s)
         IN /\ HasKey(offered, action'.s)
            /\ d \notin Disabled
            /\ env.NO_UNDO => action' # Str("undo")
            /\ d.t = "array" => \E i \in 1..Len(d.el) : args' = d.el[i]
            /\ \E call \in DOMAIN answers' :
                 /\ call.fn = "action"
                 /\ call.state = ctx.state
                 /\ Str(call.action) = action'
                 /\ call.args = args']_vars

\* with NO_UNDO set, move has been applied with one of its arguments from a
\* view that offered undo beside it
C29_Witness ==
    /\ pc = "applied"
    /\ env.NO_UNDO
    /\ action = Str("move")
    /\ args \in {Num(1), Num(2)}
    /\ \E call \in DOMAIN answers :
         /\ call.fn = "view"
         /\ answers[call].kind = "return"
         /\ Get(answers[call].view, "actions") = A_undo_move

\* undo has been applied from a view that offered it beside a disabled action
C29_WitnessDisabled ==
    /\ pc = "applied"
    /\ ctx.step = 0
    /\ action = Str("undo")
    /\ \E call \in DOMAIN answers :
         /\ call.fn = "view"
         /\ answers[call].kind = "return"
         /\ Get(answers[call].view, "actions") = A_undo_disabled

(***************************************************************************)
(* C30.  Non-empty candidate sets: inside the loop data.pickValue is never *)
(* called on an empty sequence: when an action is picked the set of action *)
(* names is not empty, and when an argument is picked the sequence of      *)
(* arguments is not empty.                                                 *)
(***************************************************************************)
C30_NonEmptyCandidates ==
    pc = "select"
    => /\ Len(Keys(Get(ctx.view, "actions"))) > 0
       /\ LET d == Get(Get(ctx.view, "actions"), NextPick.value)
          IN d.t = "array" => Len(d.el) > 0

\* an action is about to be picked among two names, and its argument among
\* the two elements of its sequence
C30_Witness ==
    /\ pc = "select"
    /\ Len(Keys(Get(ctx.view, "actions"))) = 2
    /\ NextPick.value = "move"
    /\ Len(Get(Get(ctx.view, "actions"), "move").el) = 2

(***************************************************************************)
(* C31.  Entropy is checked before each draw: every draw from the input    *)
(* (seed, scenario, role, action name, argument) is made when the bytes it *)
(* asks for remain, so no draw reads past the end of the buffer; a draw    *)
(* consumes at most 5 bytes, an iteration makes at most three draws, and   *)
(* the check of 16 remaining bytes at the head of the iteration covers     *)
(* them.                                                                   *)
(***************************************************************************)
\* the bytes a pick among the elements of seq asks for
Need(seq) == IF Len(seq) <= 1 THEN 0 ELSE BytesForRange(Len(seq) - 1)

\* this step starts a run that goes past the first entropy check
Started == pc = "idle" /\ calls'.setup = 1

\* the bytes this step has consumed
Consumed == remainingBytes - remainingBytes'

C31_EntropyBeforeDraws ==
    [][/\ Started =>
            /\ Need(RULES.scenarios) <= SEED_BYTES
            /\ Len(data') >= SEED_BYTES + Need(RULES.scenarios)
            /\ remainingBytes' = Len(data') - SEED_BYTES - Need(RULES.scenarios)
       /\ ViewCalled =>
            /\ remainingBytes >= 3 * SEED_BYTES
            /\ Need(RULES.roles) <= SEED_BYTES
            /\ Consumed = (IF Sentinel(Get(ctx.state, "active"))
                           THEN Need(RULES.roles) ELSE 0)
       /\ pc = "select" =>
            LET names == Keys(Get(ctx.view, "actions"))
                d == Get(Get(ctx.view, "actions"), action'.s)
                drawn == d.t = "array" /\ ActionCalled
            IN /\ Need(names) <= SEED_BYTES
               /\ drawn => Need(d.el) <= SEED_BYTES
               /\ Consumed = Need(names) + (IF drawn THEN Need(d.el) ELSE 0)
       /\ pc \in {"viewed", "applied"} => Consumed = 0
       /\ remainingBytes' >= 0
       /\ pc' \in {"viewed", "select", "applied"} =>
            remainingBytes' >= MIN_ENTROPY - 3 * SEED_BYTES]_vars

\* the first iteration has drawn a role, an action name and an argument
C31_Witness ==
    /\ pc = "applied"
    /\ ctx.step = 0
    /\ Len(LastEntry(ctx.replay).el) = 3
    /\ remainingBytes = Len(data) - SEED_BYTES - Need(RULES.scenarios) - 3

(***************************************************************************)
(* C32.  Resignation pseudo-action: when the rules module exposes resign   *)
(* and resignation is not suppressed, the candidate set of each iteration  *)
(* holds a synthesized resign pseudo-action, and when that one is selected *)
(* the next state comes from resign(state, role), not from action.         *)
(***************************************************************************)
C32_ResignOffered ==
    (pc = "select" /\ RULES.resign) => HasKey(Get(ctx.view, "actions"), "_resign")

(***************************************************************************)
(* C33.  Dead ends stay detectable with resignation enabled: in a state    *)
(* that is not terminal and whose view offers no enabled action other than *)
(* (optionally) undo, the run ends with NoActions also when the rules      *)
(* module exposes resign and resignation is not suppressed.                *)
(***************************************************************************)
\* every action of the mapping is disabled, or is undo
OnlyUndoEnabled(actions) ==
    /\ actions.t = "object"
    /\ \A i \in 1..Len(actions.kv) :
          actions.kv[i].val \in Disabled \/ actions.kv[i].k = "undo"

AssertionChecking == RULES.assert_state /\ ~env.NO_ASSERT

\* the action just applied was undo and fails one of the undo checks
UndoCheckFails ==
    /\ action = Str("undo")
    /\ UndoActiveViolated(ctx.state, ctx.active) \/ UndoSeedViolated(ctx.state, prev_seed)

C34_StateAssertion ==
    [][/\ (pc = "applied" /\ AssertionChecking /\ ~UndoCheckFails) =>
            LET call == [fn |-> "assert_state", state |-> ctx.state]
            IN /\ calls'.assert_state = calls.assert_state + 1
               /\ call \in DOMAIN answers'
               /\ ctx'.state = ctx.state
               /\ IF answers'[call] = Threw
                  THEN /\ pc' = "idle"
                       /\ outcome'.exit = "violation"
                       /\ outcome'.error.name = "RulesAssertError"
                       /\ ctx'.step = ctx.step
                  ELSE /\ pc' = "loop"
                       /\ ctx'.step = ctx.step + 1
       /\ (pc = "applied" /\ UndoCheckFails) => calls'.assert_state = calls.assert_state
       /\ (pc # "idle" /\ calls'.assert_state # calls.assert_state) =>
            pc = "applied" /\ AssertionChecking
       /\ ~AssertionChecking =>
            /\ calls'.assert_state = 0
            /\ \A call \in DOMAIN answers' : call.fn # "assert_state"
            /\ outcome'.error.name # "RulesAssertError"]_vars

\* the assertion has passed on the state of the first action and raised on
\* the state of the second
C34_Witness ==
    /\ Ended
    /\ AssertionChecking
    /\ outcome.error.name = "RulesAssertError"
    /\ calls.assert_state = 2
    /\ ctx.step = 1

\* with assertion checking disabled, an action has been applied to a state of
\* a rules module that exposes assert_state
C34_WitnessDisabled ==
    /\ RULES.assert_state
    /\ env.NO_ASSERT
    /\ pc = "loop"
    /\ ctx.step = 1

(***************************************************************************)
(* C35.  Termination and action bound: with a step limit that is not zero, *)
(* of magnitude N, every run terminates and applies at most N + 1 actions; *)
(* with the step limit zero and the deadline zero, a run against a rules   *)
(* module that never reaches a terminal state and whose choices consume no *)
(* input byte (no role pick, a single action, no enumerated argument)      *)
(* never terminates.                                                       *)
(***************************************************************************)
\* the magnitude of the step limit
Magnitude == IF env.MAX_STEPS < 0 THEN -env.MAX_STEPS ELSE env.MAX_STEPS

\* the view of a single action without enumerated argument, the state left
\* alone
SingleActionView(r) ==
    /\ r.mutation = "none"
    /\ ~SchemaFails(r.view)
    /\ Get(r.view, "prompt") # PROMPT_UNKNOWN
    /\ Get(r.view, "actions").t = "object"
    /\ Len(Keys(Get(r.view, "actions"))) = 1
    /\ Get(r.view, "actions").kv[1].val \in {Num(1), Bool(TRUE)}

\* a state that is not terminal, with one role to act
PlayingState(state) ==
    /\ Get(state, "state") # Str("game_over")
    /\ Get(state, "status") # Str("game_over")
    /\ ~Sentinel(Get(state, "active"))

\* an undo that keeps the acting role and the seed
KeepsRoleAndSeed(call, state) ==
    /\ Get(state, "active") = Str(call.role)
    /\ Get(state, "seed") = Get(call.state, "seed")

\* so far every call of the rules module has returned, with a state that is
\* not terminal or with the view of a single action, and undo has kept the
\* acting role and the seed
Endless ==
    \A call \in DOMAIN answers :
        /\ answers[call].kind = "return"
        /\ call.fn = "view" => SingleActionView(answers[call])
        /\ call.fn \in {"setup", "action"} => PlayingState(answers[call].state)
        /\ (call.fn = "action" /\ call.action = "undo")
           => KeepsRoleAndSeed(call, answers[call].state)

\* the input leaves the bytes the first iteration asks for
EnoughInput == Len(data) - SEED_BYTES - Need(RULES.scenarios) >= MIN_ENTROPY

C35_TerminationAndBound ==
    /\ [](env.MAX_STEPS # 0 => calls.action <= Magnitude + 1)
    /\ (env.MAX_STEPS # 0) ~> Ended
    /\ []((env.MAX_STEPS = 0 /\ env.TIMEOUT = 0 /\ EnoughInput /\ Endless) => ~Ended)

\* a run under a step limit has ended after N + 1 actions
C35_Witness ==
    /\ Ended
    /\ env.MAX_STEPS # 0
    /\ calls.action = Magnitude + 1

\* without step limit and deadline, a run against a rules module that only
\* passes is still going when the exploration stops following it
C35_WitnessEndless ==
    /\ env.MAX_STEPS = 0 /\ env.TIMEOUT = 0
    /\ EnoughInput /\ Endless
    /\ pc = "loop"
    /\ ctx.step = StepCap + 1
    /\ calls.action = StepCap + 1

====
